---- MODULE Spec2Model ----
(***************************************************************************)
(* Model of the training-data preparation scripts of cbp2025:              *)
(*   scripts/process_data.py  - ProcessData (read, shuffle, extract, mask, *)
(*                              dedup, truncate, write)                    *)
(*   scripts/mlp_prep.py      - create_paths, dedupSingleCSV,              *)
(*                              processCSVList (pool, concatenate, final   *)
(*                              pass), main                                *)
(*                                                                         *)
(* Text is modelled as a sequence of one-character strings, a CSV file as  *)
(* the sequence of its lines, a path as the sequence of the string pieces  *)
(* the code concatenates.  The alphabet of the inputs holds no quote       *)
(* character, so csv.reader splits a line at its commas and csv.writer     *)
(* joins the fields with commas.                                           *)
(***************************************************************************)
EXTENDS Integers, Sequences, FiniteSets, TLC

\* ------------------------------------------------------------------ bounds
\* Longest enumerated input file of one process() call, in rows.
MaxRows == 2
\* Largest input_size enumerated (the code accepts 1..64).
MaxW == 3
\* Most input files handed to the pipeline.
MaxFiles == 2

\* ---------------------------------------------------------------- constants
\* input_size default of ProcessData.__init__, which dedupSingleCSV keeps.
DefaultInputSize == 64
\* --seed default of mlp_prep.py.
DefaultSeed == 42
\* significand width of a Python float (IEEE-754 binary64).
MantBits == 53
\* multiprocessing.Pool.map hands out chunks of ceil(len / (4 * processes)) tasks.
ChunkFactor == 4
\* os.cpu_count(): the number of worker processes of Pool().
NumProcs == 2
\* number of states of the stand-in for the random module's generator.
RngMod == 4
\* rows of the long input file (the shortest on which the float product of
\* process() rounds below an integer-valued percentage, at percentage 58).
BigRows == 50

\* target_indicies: resolved direction and history register (0-based)
target_indicies == <<0, 3>>

\* seed=None; a seed s is <<s>>
None == <<>>

\* ------------------------------------------------------------- text helpers
Digits == <<"0", "1", "2", "3", "4", "5", "6", "7", "8", "9">>

IsDigit(c) == \E i \in 1..10 : Digits[i] = c

DigitVal(c) == (CHOOSE i \in 1..10 : Digits[i] = c) - 1

RECURSIVE LStrip(_)
LStrip(s) == IF s # <<>> /\ Head(s) = " " THEN LStrip(Tail(s)) ELSE s

RECURSIVE RStrip(_)
RStrip(s) == IF s # <<>> /\ s[Len(s)] = " " THEN RStrip(SubSeq(s, 1, Len(s) - 1)) ELSE s

\* str.strip()
Strip(s) == RStrip(LStrip(s))

\* the digits of an int literal once its sign is taken off
Unsigned(s) == IF s # <<>> /\ Head(s) \in {"+", "-"} THEN Tail(s) ELSE s

\* int(s, 10) raises ValueError unless s is [sign] digit+
ParsesAsInt(s) ==
    LET body == Unsigned(Strip(s))
    IN  body # <<>> /\ \A i \in 1..Len(body) : IsDigit(body[i])

RECURSIVE DecVal(_)
DecVal(d) == IF d = <<>> THEN 0
             ELSE 10 * DecVal(SubSeq(d, 1, Len(d) - 1)) + DigitVal(d[Len(d)])

\* int(s, 10)
IntOf(s) ==
    LET t == Strip(s)
    IN  IF t # <<>> /\ Head(t) = "-" THEN 0 - DecVal(Unsigned(t)) ELSE DecVal(Unsigned(t))

RECURSIVE DecDigits(_)
DecDigits(n) == IF n < 10 THEN <<Digits[n + 1]>>
                ELSE DecDigits(n \div 10) \o <<Digits[(n % 10) + 1]>>

\* str(n)
StrOf(n) == IF n < 0 THEN <<"-">> \o DecDigits(0 - n) ELSE DecDigits(n)

\* value ^ ((1 << W) - 1): the low W bits flipped, the others kept
MaskBitsXor(v, W) == (v \div 2^W) * 2^W + (2^W - 1 - (v % 2^W))

\* value & (1 << W): bit W alone
MaskBitsNoMinusOne(v, W) == ((v \div 2^W) % 2) * 2^W

\* value & ((1 << W) - 1): the AND with W one-bits, bit by bit from the low end
\* (\div and % floor, which is Python's two's-complement reading of a negative int).
RECURSIVE MaskBits(_, _)
MaskBits(v, W) == IF W = 0 \/ v = 0 THEN 0
                  ELSE (v % 2) + 2 * MaskBits(v \div 2, W - 1)

\* ---------------------------------------------------------------------- CSV
RECURSIVE SplitAcc(_, _)
SplitAcc(s, cur) ==
    IF s = <<>> THEN <<cur>>
    ELSE IF Head(s) = "," THEN <<cur>> \o SplitAcc(Tail(s), <<>>)
    ELSE SplitAcc(Tail(s), Append(cur, Head(s)))

\* one row of csv.reader: a blank line gives the empty row
ParseLine(line) == IF line = <<>> THEN <<>> ELSE SplitAcc(line, <<>>)

\* read_csv with every row of fewer than four fields filled up with "0"
ReadCSVZeroFilled(content) ==
    [i \in 1..Len(content) |->
        LET r == ParseLine(content[i])
        IN  r \o [k \in 1..(4 - Len(r)) |-> <<"0">>]]

\* read_csv: list(csv.reader(f))
ReadCSV(content) == [i \in 1..Len(content) |-> ParseLine(content[i])]

RECURSIVE JoinFields(_)
JoinFields(row) ==
    IF row = <<>> THEN <<>>
    ELSE IF Len(row) = 1 THEN row[1]
    ELSE row[1] \o <<",">> \o JoinFields(Tail(row))

\* writer.writerows(rows)
WriteCSV(rows) == [i \in 1..Len(rows) |-> JoinFields(rows[i])]

\* ------------------------------------------------ Python float (binary64)
\* A positive float is mant * 2^exp with mant a list of MantBits bits, most
\* significant first and leading bit 1; zero has the empty mant.
FloatZero == [mant |-> <<>>, exp |-> 0]

RECURSIVE BinDigits(_)
BinDigits(n) == IF n = 0 THEN <<>> ELSE BinDigits(n \div 2) \o <<n % 2>>

RECURSIVE BitsVal(_)
BitsVal(bits) == IF bits = <<>> THEN 0
                 ELSE 2 * BitsVal(SubSeq(bits, 1, Len(bits) - 1)) + bits[Len(bits)]

\* bits + 1
IncBits(bits) ==
    LET zeros == {i \in 1..Len(bits) : bits[i] = 0}
    IN  IF zeros = {} THEN <<1>> \o [i \in 1..Len(bits) |-> 0]
        ELSE LET k == CHOOSE i \in zeros : \A j \in zeros : j <= i
             IN  [i \in 1..Len(bits) |-> IF i < k THEN bits[i] ELSE IF i = k THEN 1 ELSE 0]

\* round-to-nearest, ties-to-even, of bits * 2^exp (leading bit 1); sticky
\* says that the exact value has further non-zero bits below bits.
RoundFloat(bits, exp, sticky) ==
    LET L == Len(bits)
    IN  IF L <= MantBits
        THEN [mant |-> bits \o [i \in 1..(MantBits - L) |-> 0], exp |-> exp - (MantBits - L)]
        ELSE LET keep  == SubSeq(bits, 1, MantBits)
                 guard == bits[MantBits + 1]
                 rest  == sticky \/ \E i \in (MantBits + 2)..L : bits[i] = 1
                 up    == guard = 1 /\ (rest \/ keep[MantBits] = 1)
                 e2    == exp + (L - MantBits)
                 inc   == IncBits(keep)
             IN  IF ~up THEN [mant |-> keep, exp |-> e2]
                 ELSE IF Len(inc) > MantBits
                      THEN [mant |-> SubSeq(inc, 1, MantBits), exp |-> e2 + 1]
                      ELSE [mant |-> inc, exp |-> e2]

\* 2^i mod d, by squaring
RECURSIVE Pow2Mod(_, _)
Pow2Mod(i, d) ==
    IF i = 0 THEN 1 % d
    ELSE IF i % 2 = 0 THEN LET h == Pow2Mod(i \div 2, d) IN (h * h) % d
    ELSE (2 * Pow2Mod(i - 1, d)) % d

\* the remainder of the long division r/d after k binary places (r < d)
FracRem(r, d, k) == (r * Pow2Mod(k, d)) % d

\* the first k bits of the binary fraction r/d (r < d)
FracBits(r, d, k) == [i \in 1..k |-> IF 2 * FracRem(r, d, i - 1) >= d THEN 1 ELSE 0]

\* zero bits before the first one-bit of the binary fraction r/d (0 < r < d)
LeadingZeros(r, d) == CHOOSE z \in 0..d : 2 * FracRem(r, d, z) >= d /\ \A j \in 0..(z - 1) : 2 * FracRem(r, d, j) < d

\* p / d for integer-valued floats p >= 0, d > 0
FloatDiv(p, d) ==
    IF p = 0 THEN FloatZero
    ELSE LET ib    == BinDigits(p \div d)
             r     == p % d
             z     == IF ib = <<>> THEN LeadingZeros(r, d) ELSE 0
             nfrac == IF ib = <<>> THEN z + MantBits + 1 ELSE MantBits + 1 - Len(ib)
             fb    == FracBits(r, d, nfrac)
             all   == IF ib = <<>> THEN SubSeq(fb, z + 1, Len(fb)) ELSE ib \o fb
         IN  RoundFloat(all, 0 - nfrac, FracRem(r, d, nfrac) # 0)

\* bits * n + cin: the low Len(bits) bits and the carry out of them
RECURSIVE MulCarry(_, _, _)
MulCarry(bits, n, cin) ==
    IF bits = <<>> THEN [bits |-> <<>>, carry |-> cin]
    ELSE IF Len(bits) = 1
         THEN LET t == bits[1] * n + cin IN [bits |-> <<t % 2>>, carry |-> t \div 2]
    ELSE LET h  == Len(bits) \div 2
             lo == MulCarry(SubSeq(bits, h + 1, Len(bits)), n, cin)
             hi == MulCarry(SubSeq(bits, 1, h), n, lo.carry)
         IN  IF lo.carry >= 0 THEN [bits |-> hi.bits \o lo.bits, carry |-> hi.carry]
             ELSE [bits |-> <<>>, carry |-> 0]

\* bits * n, as bits
MulBits(bits, n) == LET r == MulCarry(bits, n, 0) IN BinDigits(r.carry) \o r.bits

\* x * n for a float x >= 0 and an int n >= 0 (n converts exactly)
FloatMulInt(x, n) ==
    IF x.mant = <<>> \/ n = 0 THEN FloatZero
    ELSE RoundFloat(MulBits(x.mant, n), x.exp, FALSE)

\* int(x) for a float 0 <= x < 2^MantBits
FloatTrunc(x) ==
    LET keep == Len(x.mant) + x.exp
    IN  IF x.mant = <<>> \/ keep <= 0 THEN 0 ELSE BitsVal(SubSeq(x.mant, 1, keep))

\* int((self.percentage / 100) * num_unique_lines)
NumLinesToTake(percentage, n) == FloatTrunc(FloatMulInt(FloatDiv(percentage, 100), n))

\* ------------------------------------------------------ the random module
RngStates == 0..(RngMod - 1)

\* one step of the generator (a full-period congruential stand-in)
RngStep(s) == (5 * s + 3) % RngMod

\* the state k draws after state s
RECURSIVE RngJump(_, _)
RngJump(s, k) ==
    IF k = 0 THEN s
    ELSE IF k = 1 THEN RngStep(s)
    ELSE LET h == RngJump(s, k \div 2) IN IF h >= 0 THEN RngJump(h, k - k \div 2) ELSE h

\* shuffle_data without its random.seed call: the generator is left as it was
SeedStateStale(seed, before) == before

\* random.seed(self.seed): the state depends on the seed alone
SeedState(seed, before) == seed[1] % RngMod

\* a swap that copies x[j] to x[i] and leaves x[j] as it was
SwapAtOverwrite(x, s0, t) ==
    LET i == Len(x) - t + 1
        j == 1 + (RngJump(s0, t) % i)
    IN  [x EXCEPT ![i] = x[j]]

\* the t-th swap of random.shuffle on a list of n items: i runs from the last
\* index down, j = randbelow(i + 1)
SwapAt(x, s0, t) ==
    LET i == Len(x) - t + 1
        j == 1 + (RngJump(s0, t) % i)
    IN  [x EXCEPT ![i] = x[j], ![j] = x[i]]

\* swaps lo..hi of random.shuffle, in order
RECURSIVE ShuffleRange(_, _, _, _)
ShuffleRange(x, s0, lo, hi) ==
    IF lo > hi THEN x
    ELSE IF lo = hi THEN SwapAt(x, s0, lo)
    ELSE LET mid   == (lo + hi) \div 2
             first == ShuffleRange(x, s0, lo, mid)
         IN  IF Len(first) >= 0 THEN ShuffleRange(first, s0, mid + 1, hi) ELSE first

\* shuffle_data: the list after random.seed(seed); random.shuffle(data)
shuffle_data(data, seed, before) ==
    ShuffleRange(data, SeedState(seed, before), 1, Len(data) - 1)

\* the generator's state after shuffle_data
RngAfterShuffle(data, seed, before) ==
    RngJump(SeedState(seed, before), IF Len(data) > 1 THEN Len(data) - 1 ELSE 0)

\* ------------------------------------------------- ProcessData.process()
\* extracted_row of one row
ExtractRow(row, isProcessed) ==
    IF isProcessed THEN row
    ELSE [k \in 1..Len(target_indicies) |-> row[target_indicies[k] + 1]]

\* the loop body raises IndexError (a missing field) or ValueError (int())
RowRaises(row, isProcessed) ==
    \/ ~isProcessed /\ \E k \in 1..Len(target_indicies) : target_indicies[k] + 1 > Len(row)
    \/ isProcessed /\ Len(row) < 2
    \/ ~ParsesAsInt(ExtractRow(row, isProcessed)[2])

\* the row loop with the mask left out for processed rows
DecodeRowNoRemask(row, isProcessed, input_size) ==
    LET e == ExtractRow(row, isProcessed)
        v == IntOf(Strip(e[2]))
    IN  [e EXCEPT ![2] = StrOf(IF isProcessed THEN v ELSE MaskBits(v, input_size))]

\* extracted_row once its history is masked and written back as decimal text
DecodeRow(row, isProcessed, input_size) ==
    LET e == ExtractRow(row, isProcessed)
    IN  [e EXCEPT ![2] = StrOf(MaskBits(IntOf(Strip(e[2])), input_size))]

\* set(tuple(row) for row in processed_data)
DedupRows(rows) == {rows[i] : i \in 1..Len(rows)}

\* the orders list(processed_set) may enumerate a set in
SetOrders(S) ==
    {f \in [1..Cardinality(S) -> S] : \A i, j \in 1..Cardinality(S) : i # j => f[i] # f[j]}

\* list(x)[:k]
SlicePrefix(x, k) ==
    IF k >= 0 THEN SubSeq(x, 1, IF k < Len(x) THEN k ELSE Len(x))
    ELSE SubSeq(x, 1, IF Len(x) + k > 0 THEN Len(x) + k ELSE 0)

\* open(path, 'w') then write(data) on a file whose content is old by then
\* (old is empty unless another writer of the same path wrote in between)
Overwrite(old, data) == data \o SubSeq(old, Len(data) + 1, Len(old))

\* file system update
PutFile(f, path, content) == (path :> content) @@ f

Config(inp, out, pct, seed, w, dedup, isProcessed) ==
    [input_file |-> inp, output_file |-> out, percentage |-> pct, seed |-> seed,
     input_size |-> w, dedup |-> dedup, isProcessed |-> isProcessed]

\* ------------------------------------------------------------------ inputs
RowA == <<"1", ",", "x", ",", "x", ",", "5">>
RowB == <<"0", ",", "x", ",", "x", ",", "1", "3">>
RowC == <<"1", ",", "x", ",", "x", ",", " ", "0", "1", "3">>
RowShort == <<"1", ",", "x">>
RowEmpty == <<>>
RowNaN == <<"1", ",", "x", ",", "x", ",", "z", "z">>

RawLines == {RowA, RowB, RowC, RowShort, RowEmpty, RowNaN}

SeqsUpTo(S, n) == UNION {[1..k -> S] : k \in 0..n}

BigFile == [i \in 1..BigRows |-> RowA]

InputFiles == SeqsUpTo(RawLines, MaxRows) \cup {BigFile}

Percentages == {0, 58, 100}

Seeds == {None, <<1>>}

InPath == <<"in.csv">>
OutPath == <<"out.csv">>
Out2Path == <<"out2.csv">>

VARIABLES
    fs,      \* the files: path -> lines
    rng,     \* state of the random module in the main process
    main,    \* the process() call of the main process
    calls,   \* the process() calls the main process has finished
    stage,   \* where the caller is
    args,    \* the command line of mlp_prep.py
    file_matches,  \* the trace files main() gathered
    csv_list,      \* renamed_csv_paths
    output_list,   \* renamed_processed_paths
    task,    \* the pool's dedupSingleCSV tasks, one per file
    merged,  \* the number of processed files copied into the combined file
    sweep    \* the loop of perceptron_sweep.py

vars == <<fs, rng, main, calls, stage, args, file_matches, csv_list, output_list, task, merged, sweep>>

\* what a process() call of the main process leaves alone
poolVars == <<args, file_matches, csv_list, output_list, task, merged, sweep>>

\* what perceptron_sweep.py leaves alone
prepVars == <<fs, rng, main, calls, stage, args, file_matches, csv_list, output_list, task, merged>>

\* perceptron_sweep.py not started
IdleSweep ==
    [pc |-> "idle", paths_exist |-> TRUE, t |-> 1, h |-> 1,
     successful_configs |-> <<>>, failed_configs |-> <<>>, built |-> <<>>, traced |-> <<>>]

\* mlp_prep.py's arguments: --percentage, --seed, --input_size, --skip_sim
Args(pct, seed, w, skip_sim) ==
    [percentage |-> pct, seed |-> seed, input_size |-> w, skip_sim |-> skip_sim]

DefaultArgs == Args(100, <<DefaultSeed>>, DefaultInputSize, FALSE)

IdleCall == [pc |-> "idle", cfg |-> Config(<<>>, <<>>, 100, None, DefaultInputSize, TRUE, FALSE), raw |-> <<>>, shuffled |-> <<>>,
             before |-> 0, rows |-> <<>>]

StartCall(cfg) == [IdleCall EXCEPT !.pc = "start", !.cfg = cfg]

CallRecord(m, ok, file) ==
    [cfg |-> m.cfg, raw |-> m.raw, shuffled |-> m.shuffled, before |-> m.before,
     ok |-> ok, file |-> file]

\* process() with the dedup flag ignored: the list is never turned into a set
TruncatedRowsNoDedup(processed_data, dedup, percentage) ==
    {SlicePrefix(processed_data, NumLinesToTake(percentage, Len(processed_data)))}

\* process() with the set built whatever the dedup flag is
TruncatedRowsAlwaysDedup(processed_data, dedup, percentage) ==
    {SlicePrefix(processed_set, NumLinesToTake(percentage, Len(processed_set))) :
        processed_set \in SetOrders(DedupRows(processed_data))}

\* the rows process() is left with at line 86, for each order the set may be
\* listed in
TruncatedRows(processed_data, dedup, percentage) ==
    LET orders == IF dedup THEN SetOrders(DedupRows(processed_data)) ELSE {processed_data}
    IN  {SlicePrefix(processed_set, NumLinesToTake(percentage, Len(processed_set))) :
            processed_set \in orders}

\* process() with the output file opened for writing right after read_csv,
\* before the row loop
MainReadTruncatingFirst ==
    /\ main.pc = "start"
    /\ LET cfg     == main.cfg
           missing == cfg.input_file \notin DOMAIN fs
           seeded  == cfg.seed # None /\ ~missing
       IN  \E data \in {IF missing THEN <<>> ELSE ReadCSV(fs[cfg.input_file])} :
           \E shuffled \in {IF seeded THEN shuffle_data(data, cfg.seed, rng) ELSE data} :
              LET seen == [main EXCEPT !.raw = data, !.shuffled = shuffled, !.before = rng]
              IN  /\ rng' = IF seeded THEN RngAfterShuffle(data, cfg.seed, rng) ELSE rng
                  /\ IF missing \/ \E i \in 1..Len(shuffled) : RowRaises(shuffled[i], cfg.isProcessed)
                     THEN /\ main' = [seen EXCEPT !.pc = "failed"]
                          /\ calls' = Append(calls, CallRecord(seen, FALSE, <<>>))
                     ELSE /\ \E processed_data \in
                                  {[i \in 1..Len(shuffled) |->
                                       DecodeRow(shuffled[i], cfg.isProcessed, cfg.input_size)]} :
                             \E rows \in TruncatedRows(processed_data, cfg.dedup, cfg.percentage) :
                                 main' = [seen EXCEPT !.pc = "computed", !.rows = rows]
                          /\ calls' = calls
    /\ fs' = PutFile(fs, main.cfg.output_file, <<>>)
    /\ UNCHANGED <<stage, poolVars>>

\* process(), lines 49-86: read_csv, the seeded shuffle, the row loop, the
\* set, the truncation.  An exception ends the call before the output is opened.
\* (Each intermediate list is bound once, as the value it has.)
MainRead ==
    /\ main.pc = "start"
    /\ LET cfg     == main.cfg
           missing == cfg.input_file \notin DOMAIN fs
           seeded  == cfg.seed # None /\ ~missing
       IN  \E data \in {IF missing THEN <<>> ELSE ReadCSV(fs[cfg.input_file])} :
           \E shuffled \in {IF seeded THEN shuffle_data(data, cfg.seed, rng) ELSE data} :
              LET seen == [main EXCEPT !.raw = data, !.shuffled = shuffled, !.before = rng]
              IN  /\ rng' = IF seeded THEN RngAfterShuffle(data, cfg.seed, rng) ELSE rng
                  /\ IF missing \/ \E i \in 1..Len(shuffled) : RowRaises(shuffled[i], cfg.isProcessed)
                     THEN /\ main' = [seen EXCEPT !.pc = "failed"]
                          /\ calls' = Append(calls, CallRecord(seen, FALSE, <<>>))
                     ELSE /\ \E processed_data \in
                                  {[i \in 1..Len(shuffled) |->
                                       DecodeRow(shuffled[i], cfg.isProcessed, cfg.input_size)]} :
                             \E rows \in TruncatedRows(processed_data, cfg.dedup, cfg.percentage) :
                                 main' = [seen EXCEPT !.pc = "computed", !.rows = rows]
                          /\ calls' = calls
    /\ UNCHANGED <<fs, stage, poolVars>>

\* line 89: open(self.output_file, mode='w') creates or truncates the file
MainOpen ==
    /\ main.pc = "computed"
    /\ fs' = PutFile(fs, main.cfg.output_file, <<>>)
    /\ main' = [main EXCEPT !.pc = "opened"]
    /\ UNCHANGED <<rng, calls, stage, poolVars>>

\* lines 90-91: writerows, and the file is closed
MainWrite ==
    /\ main.pc = "opened"
    /\ LET content == Overwrite(fs[main.cfg.output_file], WriteCSV(main.rows))
       IN  /\ fs' = PutFile(fs, main.cfg.output_file, content)
           /\ calls' = Append(calls, CallRecord(main, TRUE, content))
    /\ main' = [main EXCEPT !.pc = "done"]
    /\ UNCHANGED <<rng, stage, poolVars>>

\* a caller that processes the output of its first call again, as processed rows
Reprocess ==
    /\ stage = "single" /\ main.pc = "done" /\ Len(calls) = 1
    /\ \E w \in 1..MaxW :
           main' = StartCall([main.cfg EXCEPT !.input_file = main.cfg.output_file,
                                              !.output_file = Out2Path,
                                              !.isProcessed = TRUE,
                                              !.input_size = w])
    /\ UNCHANGED <<fs, rng, calls, stage, poolVars>>

\* a caller that makes the same call again
Repeat ==
    /\ stage = "single" /\ main.pc = "done" /\ Len(calls) = 1
    /\ main' = StartCall(main.cfg)
    /\ UNCHANGED <<fs, rng, calls, stage, poolVars>>

\* <<percentage, input_size>> pairs that ProcessData.__init__ stores without
\* a check: a percentage above 100, an input_size of 0
UncheckedConfigs == {<<130, 1>>, <<100, 0>>}

InitProcess ==
    /\ stage = "single"
    /\ \E content \in InputFiles : fs = (InPath :> content)
    /\ rng \in RngStates
    /\ \E pw \in (Percentages \X (1..MaxW)) \cup UncheckedConfigs, seed \in Seeds, dedup \in BOOLEAN :
           main = StartCall(Config(InPath, OutPath, pw[1], seed, pw[2], dedup, FALSE))
    /\ calls = <<>>
    /\ args = DefaultArgs
    /\ file_matches = <<>> /\ csv_list = <<>> /\ output_list = <<>>
    /\ task = <<>> /\ merged = 0
    /\ sweep = IdleSweep

NextProcess ==
    \/ MainRead
    \/ MainOpen
    \/ MainWrite
    \/ Reprocess
    \/ Repeat

\* one caller of ProcessData.process()
SpecProcess == InitProcess /\ [][NextProcess]_vars

\* ------------------------------------------------------- mlp_prep.py paths
\* A file name is a sequence of pieces; "_branch_history_log" is one piece.
HistoryLogPiece == "_branch_history_log"

NameGcc == <<"gcc", HistoryLogPiece>>
NameGcc2 == <<"gcc", HistoryLogPiece, "_2">>
NameBare == <<"branch_history_log">>

\* the names (without extension) of the files search_pattern matches
TraceNames == {NameGcc, NameGcc2, NameBare}

ext == ".csv"

timestamp == "20250101_000000"

\* a trace file's content
TraceFiles == {<<RowB>>, <<RowC, RowA>>, <<RowA, RowShort>>}

\* the directory main() lists: trace_dir with --skip_sim, else base_path.parent
SourceDir(skip_sim) == IF skip_sim THEN "trace_dir/" ELSE "base_parent/"

SourcePath(name, skip_sim) == <<SourceDir(skip_sim)>> \o name \o <<ext>>

renamed_output_dir == "output_dir/traceresults_20250101_000000/"

\* re.search(r'^(.*?)(_branch_history_log)', name): group 1, or "unknown"
TraceType(name) ==
    IF \E k \in 1..Len(name) : name[k] = HistoryLogPiece
    THEN LET first == CHOOSE k \in 1..Len(name) :
                          /\ name[k] = HistoryLogPiece
                          /\ \A j \in 1..(k - 1) : name[j] # HistoryLogPiece
         IN  SubSeq(name, 1, first - 1)
    ELSE <<"unknown">>

NewCsvPath(name, skip_sim) ==
    IF skip_sim THEN <<renamed_output_dir>> \o name \o <<"_", ext>>
    ELSE <<renamed_output_dir>> \o name \o <<"_", timestamp, ext>>

\* every piece before the first "_branch_history_log" kept, the rest dropped
NewProcessedPath(name) ==
    <<renamed_output_dir>> \o TraceType(name) \o <<"_dedup_data_", timestamp, ext>>

combined_output_path == <<"output_dir/", "mlp_training_data_", timestamp, ext>>

\* the loop of create_paths on the files: copy2 with --skip_sim, else rename
RECURSIVE MoveFiles(_, _, _)
MoveFiles(f, file_list, skip_sim) ==
    IF file_list = <<>> THEN f
    ELSE LET src    == SourcePath(Head(file_list), skip_sim)
             copied == PutFile(f, NewCsvPath(Head(file_list), skip_sim), f[src])
             moved  == IF skip_sim THEN copied
                       ELSE [q \in DOMAIN copied \ {src} |-> copied[q]]
         IN  MoveFiles(moved, Tail(file_list), skip_sim)

\* --------------------------------------------------- the pool of Stage A
QueuedTask == [pc |-> "queued", rows |-> <<>>]

\* pool.map's chunksize for n tasks: ceil(n / (4 * processes))
ChunkSize(n) ==
    LET q == n \div (ChunkFactor * NumProcs)
    IN  IF n % (ChunkFactor * NumProcs) > 0 THEN q + 1 ELSE q

ChunkOf(i) == (i - 1) \div ChunkSize(Len(task))

FirstOfChunk(i) == i = 1 \/ ChunkOf(i - 1) # ChunkOf(i)

Finished(t) == t.pc \in {"done", "failed", "skipped"}

\* the chunks a worker process is busy with
BusyChunks ==
    {ChunkOf(i) : i \in {j \in DOMAIN task : task[j].pc # "queued" /\ ~Finished(task[j])}}

\* a worker takes the next chunk when it is free, and a chunk's tasks in order
CanStart(i) ==
    /\ task[i].pc = "queued"
    /\ IF FirstOfChunk(i)
       THEN /\ \A j \in 1..(i - 1) : task[j].pc # "queued"
            /\ Cardinality(BusyChunks) < NumProcs
       ELSE task[i - 1].pc = "done"

\* pool.map returns, or raises, once the first task has a result
PoolDoneFirst(tasks) == tasks = <<>> \/ \E i \in DOMAIN tasks : Finished(tasks[i])

\* pool.map returns, or raises, once every task has a result
PoolDone(tasks) == \A i \in DOMAIN tasks : Finished(tasks[i])

\* main(), lines 213-232: the output directory is renamed, create_paths moves
\* the trace files and names the processed files, processCSVList hands one
\* dedupSingleCSV task per file to the pool
CreatePaths ==
    /\ stage = "main"
    /\ fs' = MoveFiles(fs, file_matches, args.skip_sim)
    /\ csv_list' = [i \in 1..Len(file_matches) |-> NewCsvPath(file_matches[i], args.skip_sim)]
    /\ output_list' = [i \in 1..Len(file_matches) |-> NewProcessedPath(file_matches[i])]
    /\ task' = [i \in 1..Len(file_matches) |-> QueuedTask]
    /\ stage' = "pool"
    /\ UNCHANGED <<rng, main, calls, args, file_matches, merged, sweep>>

\* a task that raised: the rest of its chunk is never run
FailTask(i) ==
    [j \in DOMAIN task |->
        IF j = i THEN [task[j] EXCEPT !.pc = "failed"]
        ELSE IF j > i /\ ChunkOf(j) = ChunkOf(i) THEN [task[j] EXCEPT !.pc = "skipped"]
        ELSE task[j]]

\* dedupSingleCSV in a worker: process() with dedup=True and the defaults
\* (percentage 100, no seed, input_size 64), lines 49-86 of process()
TaskRead(i) ==
    /\ stage = "pool" /\ CanStart(i)
    /\ IF csv_list[i] \notin DOMAIN fs
       THEN task' = FailTask(i)
       ELSE \E data \in {ReadCSV(fs[csv_list[i]])} :
               IF \E k \in 1..Len(data) : RowRaises(data[k], FALSE)
               THEN task' = FailTask(i)
               ELSE \E processed_data \in
                         {[k \in 1..Len(data) |-> DecodeRow(data[k], FALSE, DefaultInputSize)]} :
                       \E rows \in TruncatedRows(processed_data, TRUE, 100) :
                           task' = [task EXCEPT ![i] = [pc |-> "computed", rows |-> rows]]
    /\ UNCHANGED <<fs, rng, main, calls, stage, args, file_matches, csv_list, output_list, merged, sweep>>

\* the worker's open(output_file, mode='w'), line 89 of process()
TaskOpen(i) ==
    /\ stage = "pool" /\ task[i].pc = "computed"
    /\ fs' = PutFile(fs, output_list[i], <<>>)
    /\ task' = [task EXCEPT ![i].pc = "opened"]
    /\ UNCHANGED <<rng, main, calls, stage, args, file_matches, csv_list, output_list, merged, sweep>>

\* the worker's writerows and close, lines 90-91 of process()
TaskWrite(i) ==
    /\ stage = "pool" /\ task[i].pc = "opened"
    /\ fs' = PutFile(fs, output_list[i], Overwrite(fs[output_list[i]], WriteCSV(task[i].rows)))
    /\ task' = [task EXCEPT ![i].pc = "done"]
    /\ UNCHANGED <<rng, main, calls, stage, args, file_matches, csv_list, output_list, merged, sweep>>

\* pool.map with a task's exception swallowed: the run goes on to Stage B
PoolJoinIgnoringFailure ==
    /\ stage = "pool" /\ PoolDone(task)
    /\ stage' = "joined"
    /\ UNCHANGED <<fs, rng, main, calls, args, file_matches, csv_list, output_list, task, merged, sweep>>

\* pool.map returns or re-raises a task's exception; leaving the with block
\* terminates the workers
PoolJoin ==
    /\ stage = "pool" /\ PoolDone(task)
    /\ stage' = IF \E i \in DOMAIN task : task[i].pc = "failed" THEN "aborted" ELSE "joined"
    /\ UNCHANGED <<fs, rng, main, calls, args, file_matches, csv_list, output_list, task, merged, sweep>>

\* line 171: the combined file is opened for writing
MergeOpen ==
    /\ stage = "joined"
    /\ fs' = PutFile(fs, combined_output_path, <<>>)
    /\ merged' = 0
    /\ stage' = "merge"
    /\ UNCHANGED <<rng, main, calls, args, file_matches, csv_list, output_list, task, sweep>>

\* lines 172-174: the next processed file is read and appended as text
MergeCopy ==
    /\ stage = "merge" /\ merged < Len(output_list)
    /\ IF output_list[merged + 1] \in DOMAIN fs
       THEN /\ fs' = [fs EXCEPT ![combined_output_path] = @ \o fs[output_list[merged + 1]]]
            /\ merged' = merged + 1
            /\ stage' = stage
       ELSE /\ stage' = "aborted"
            /\ UNCHANGED <<fs, merged>>
    /\ UNCHANGED <<rng, main, calls, args, file_matches, csv_list, output_list, task, sweep>>

\* lines 177-186: the combined file is closed and processed in place with the
\* run's arguments, as processed rows, without dedup
StageC ==
    /\ stage = "merge" /\ merged = Len(output_list)
    /\ main' = StartCall(Config(combined_output_path, combined_output_path, args.percentage,
                                args.seed, args.input_size, FALSE, TRUE))
    /\ stage' = "stageC"
    /\ UNCHANGED <<fs, rng, calls, args, file_matches, csv_list, output_list, task, merged, sweep>>

\* process() returned, or its exception ends the run
Exit ==
    /\ stage = "stageC" /\ main.pc \in {"done", "failed"}
    /\ stage' = IF main.pc = "done" THEN "done" ELSE "aborted"
    /\ UNCHANGED <<fs, rng, main, calls, args, file_matches, csv_list, output_list, task, merged, sweep>>

PipelinePercentages == {58, 100}

\* restricted_percent and restricted_size: the value passes argparse
restricted_percent(p) == ~(p < 0 \/ p > 100)

restricted_size(s) == ~(s <= 0) /\ ~(s > 64)

\* --percentage and --input_size values as typed, some of them out of range
TypedPercentages == PipelinePercentages \cup {130}

TypedSizes == 0..MaxW

\* the lists main() may gather: distinct names of one directory, in any order
FileLists ==
    {l \in SeqsUpTo(TraceNames, MaxFiles) : \A i, j \in 1..Len(l) : i # j => l[i] # l[j]}

\* a directory of more files than 4 * processes, so that pool.map makes
\* chunks of two tasks: t1_branch_history_log.csv, t2_..., the first one with
\* a short row
ManyFiles == [k \in 1..(ChunkFactor * NumProcs + 1) |-> <<"t", ToString(k), HistoryLogPiece>>]

ManyContents == [k \in 1..(ChunkFactor * NumProcs + 1) |-> IF k = 1 THEN <<RowA, RowShort>> ELSE <<RowA>>]

\* the directories main() may find: the files gathered and their contents
TraceDirs ==
    UNION {{[files |-> l, contents |-> c] : c \in [1..Len(l) -> TraceFiles]} : l \in FileLists}
    \cup {[files |-> ManyFiles, contents |-> ManyContents]}

\* mlp_prep.py started: the trace files are in the source directory
Init ==
    /\ \E pct \in TypedPercentages, w \in TypedSizes, skip_sim \in BOOLEAN :
           /\ args = Args(pct, <<DefaultSeed>>, w, skip_sim)
           /\ stage = IF restricted_percent(pct) /\ restricted_size(w) THEN "main" ELSE "usage"
           /\ \E d \in TraceDirs :
                 /\ file_matches = d.files
                 /\ fs = [q \in {SourcePath(d.files[i], skip_sim) : i \in DOMAIN d.files} |->
                             d.contents[CHOOSE i \in DOMAIN d.files :
                                            SourcePath(d.files[i], skip_sim) = q]]
    /\ rng \in RngStates
    /\ main = IdleCall
    /\ calls = <<>>
    /\ csv_list = <<>> /\ output_list = <<>> /\ task = <<>> /\ merged = 0
    /\ sweep = IdleSweep

Next ==
    \/ CreatePaths
    \/ \E i \in DOMAIN task : TaskRead(i)
    \/ \E i \in DOMAIN task : TaskOpen(i)
    \/ \E i \in DOMAIN task : TaskWrite(i)
    \/ PoolJoin
    \/ MergeOpen
    \/ MergeCopy
    \/ StageC
    \/ MainRead
    \/ MainOpen
    \/ MainWrite
    \/ Exit

\* one run of mlp_prep.py
Spec == Init /\ [][Next]_vars

\* ------------------------------------------- process() on existing outputs
\* what an earlier run left in the output file: the row 0,7
PreviousOutput == <<<<"0", ",", "7">>>>

\* a concatenation of BigRows processed rows 1,5
BigCombined == [i \in 1..BigRows |-> <<"1", ",", "5">>]

\* the output file of a call: the input file itself, a file that does not
\* exist yet, or a file an earlier run wrote
OutputSetups == {"inplace", "fresh", "previous"}

\* a caller of process() whose output file may exist already: a call on raw
\* rows, or the call processCSVList makes on the combined file (lines 177-186)
InitInPlace ==
    /\ stage = "single"
    /\ rng \in RngStates
    /\ calls = <<>>
    /\ args = DefaultArgs
    /\ file_matches = <<>> /\ csv_list = <<>> /\ output_list = <<>>
    /\ task = <<>> /\ merged = 0
    /\ sweep = IdleSweep
    /\ \/ \E content \in SeqsUpTo(RawLines, MaxRows), setup \in OutputSetups,
             pct \in Percentages, seed \in Seeds, dedup \in BOOLEAN :
             /\ fs = IF setup = "previous"
                     THEN (InPath :> content) @@ (OutPath :> PreviousOutput)
                     ELSE (InPath :> content)
             /\ main = StartCall(Config(InPath, IF setup = "inplace" THEN InPath ELSE OutPath,
                                        pct, seed, DefaultInputSize, dedup, FALSE))
       \/ \E pct \in PipelinePercentages, w \in 1..MaxW :
             /\ fs = (combined_output_path :> BigCombined)
             /\ main = StartCall(Config(combined_output_path, combined_output_path, pct,
                                        <<DefaultSeed>>, w, FALSE, TRUE))

NextInPlace ==
    \/ MainRead
    \/ MainOpen
    \/ MainWrite
    \/ Repeat

SpecInPlace == InitInPlace /\ [][NextInPlace]_vars

\* ------------------------------------------------------ perceptron_sweep.py
TABLE_SIZES == <<64, 128, 256, 512, 1024, 2048>>
HISTORY_LENGTHS == <<0, 1, 10, 20, 30, 40, 50, 60, 62, 64>>

\* the most subprocess failures of one sweep
MaxFailures == 1

\* the configuration the loops are at
SweepConfig(s) == <<TABLE_SIZES[s.t], HISTORY_LENGTHS[s.h]>>

\* the next iteration of the nested loops, or the end of the sweep
NextConfig(s) ==
    IF s.h < Len(HISTORY_LENGTHS) THEN [s EXCEPT !.pc = "build", !.h = s.h + 1]
    ELSE IF s.t < Len(TABLE_SIZES) THEN [s EXCEPT !.pc = "build", !.t = s.t + 1, !.h = 1]
    ELSE [s EXCEPT !.pc = "done"]

\* a subprocess of the sweep may fail
MayFail(s) == Len(s.failed_configs) < MaxFailures

\* main() up to the loops: the two paths are verified
VerifyPaths ==
    /\ sweep.pc = "start"
    /\ sweep' = [sweep EXCEPT !.pc = IF sweep.paths_exist THEN "build" ELSE "exit"]
    /\ UNCHANGED prepVars

\* a failed build is recorded and the traces of its configuration run all the same
BuildPerceptronWithoutContinue ==
    /\ sweep.pc = "build"
    /\ \E ok \in {TRUE} \cup (IF MayFail(sweep) THEN {FALSE} ELSE {}) :
         LET c == SweepConfig(sweep)
             b == [sweep EXCEPT !.built = Append(@, <<c, ok>>)]
         IN  sweep' = IF ok THEN [b EXCEPT !.pc = "traces"]
                      ELSE [b EXCEPT !.pc = "traces",
                                     !.failed_configs = Append(@, <<c[1], c[2], "build_failed">>)]
    /\ UNCHANGED prepVars

\* build_perceptron() of the current configuration and the branch on its result
BuildPerceptron ==
    /\ sweep.pc = "build"
    /\ \E ok \in {TRUE} \cup (IF MayFail(sweep) THEN {FALSE} ELSE {}) :
         LET c == SweepConfig(sweep)
             b == [sweep EXCEPT !.built = Append(@, <<c, ok>>)]
         IN  sweep' = IF ok THEN [b EXCEPT !.pc = "traces"]
                      ELSE NextConfig([b EXCEPT !.failed_configs =
                                           Append(@, <<c[1], c[2], "build_failed">>)])
    /\ UNCHANGED prepVars

\* run_traces() of the current configuration and the branch on its result
RunTraces ==
    /\ sweep.pc = "traces"
    /\ \E ok \in {TRUE} \cup (IF MayFail(sweep) THEN {FALSE} ELSE {}) :
         LET c == SweepConfig(sweep)
             r == [sweep EXCEPT !.traced = Append(@, c)]
         IN  sweep' = IF ok
                      THEN NextConfig([r EXCEPT !.successful_configs = Append(@, c)])
                      ELSE NextConfig([r EXCEPT !.failed_configs =
                                           Append(@, <<c[1], c[2], "trace_failed">>)])
    /\ UNCHANGED prepVars

InitSweep ==
    /\ fs = << >> /\ rng = 0
    /\ main = IdleCall /\ calls = <<>> /\ stage = "sweep"
    /\ args = DefaultArgs /\ file_matches = <<>>
    /\ csv_list = <<>> /\ output_list = <<>> /\ task = <<>> /\ merged = 0
    /\ \E e \in BOOLEAN : sweep = [IdleSweep EXCEPT !.pc = "start", !.paths_exist = e]

NextSweep == VerifyPaths \/ BuildPerceptron \/ RunTraces

SpecSweep == InitSweep /\ [][NextSweep]_vars

\* ------------------------------------------------------------------ claims
\* the rows of a written file, and a sequence's elements
RowsOf(file) == {ParseLine(file[i]) : i \in 1..Len(file)}

Elems(x) == {x[i] : i \in 1..Len(x)}

\* the decoded rows of a finished call
DecodedSet(c) ==
    {DecodeRow(c.raw[j], c.cfg.isProcessed, c.cfg.input_size) : j \in 1..Len(c.raw)}

\* C1: a call with isProcessed=false writes, for a raw row of label l and
\* history text of value v, the row l,(v mod 2^W): every written history is
\* the decimal text of a value in 0..2^W-1, and with percentage 100, no seed
\* and no dedup row i of the output is raw row i masked.
C1_MaskedHistory ==
    \A k \in DOMAIN calls :
        LET c == calls[k]
            W == c.cfg.input_size
            masked(r) == <<r[1], StrOf(IntOf(r[4]) % 2^W)>>
        IN  (c.ok /\ ~c.cfg.isProcessed) =>
              /\ \A i \in 1..Len(c.file) :
                    LET w == ParseLine(c.file[i])
                    IN  /\ \E j \in 1..Len(c.raw) : w = masked(c.raw[j])
                        /\ ParsesAsInt(w[2])
                        /\ 0 <= IntOf(w[2]) /\ IntOf(w[2]) < 2^W
              /\ (c.cfg.percentage = 100 /\ c.cfg.seed = None /\ ~c.cfg.dedup) =>
                    /\ Len(c.file) = Len(c.raw)
                    /\ \A i \in 1..Len(c.raw) : ParseLine(c.file[i]) = masked(c.raw[i])

\* C1 witness: a call wrote a row whose raw history does not fit in W bits
C1_Witness ==
    \E k \in DOMAIN calls :
        /\ calls[k].ok /\ ~calls[k].cfg.isProcessed /\ Len(calls[k].file) > 0
        /\ \A j \in 1..Len(calls[k].raw) :
               IntOf(calls[k].raw[j][4]) >= 2^(calls[k].cfg.input_size)

\* the number of rows that enter the truncation of a finished call
SampledFrom(c) == IF c.cfg.dedup THEN Cardinality(DecodedSet(c)) ELSE Len(c.raw)

\* C6 (as claimed): every successful call writes floor(P/100 * N) rows, N the
\* number of rows that enter the sampling step.
C6_PrefixCount ==
    \A k \in DOMAIN calls :
        calls[k].ok =>
            Len(calls[k].file) = (calls[k].cfg.percentage * SampledFrom(calls[k])) \div 100

\* C7: two calls of shuffle_data with the same seed and the same input list
\* return the same list, whatever the generator's state was before each.
C7_ShuffleDeterministic ==
    \A j, k \in DOMAIN calls :
        (/\ calls[j].cfg.seed # None
         /\ calls[j].cfg.seed = calls[k].cfg.seed
         /\ calls[j].raw = calls[k].raw)
        => calls[j].shuffled = calls[k].shuffled

\* C7 witness: two seeded calls on the same rows started from different
\* generator states, and the shuffle moved the rows
C7_Witness ==
    /\ Len(calls) = 2
    /\ calls[1].cfg.seed # None /\ calls[1].cfg.seed = calls[2].cfg.seed
    /\ calls[1].raw = calls[2].raw
    /\ calls[1].before # calls[2].before
    /\ calls[1].shuffled # calls[1].raw

\* C8: with dedup=true no two written rows are equal, and at percentage 100
\* the written rows are exactly the distinct decoded rows of the input.
C8_DedupDistinct ==
    \A k \in DOMAIN calls :
        LET c == calls[k]
        IN  (c.ok /\ c.cfg.dedup) =>
              /\ \A i, j \in 1..Len(c.file) : i # j => c.file[i] # c.file[j]
              /\ c.cfg.percentage = 100 => RowsOf(c.file) = DecodedSet(c)

\* C8 witness: two different raw rows that agree on label and low W bits were
\* written as one row
C8_Witness ==
    \E k \in DOMAIN calls :
        /\ calls[k].ok /\ calls[k].cfg.dedup /\ calls[k].cfg.percentage = 100
        /\ Len(calls[k].raw) = 2 /\ calls[k].raw[1] # calls[k].raw[2]
        /\ Len(calls[k].file) = 1

\* a dedup=true, percentage=100, seed=None call, and a second one that reads
\* the first one's output as processed rows with the same input_size
DedupTwice ==
    /\ Len(calls) = 2
    /\ calls[1].ok /\ calls[1].cfg.dedup /\ calls[1].cfg.percentage = 100
    /\ calls[1].cfg.seed = None
    /\ calls[2].cfg.input_file = calls[1].cfg.output_file
    /\ calls[2].cfg.isProcessed
    /\ calls[2].cfg.input_size = calls[1].cfg.input_size
    /\ calls[2].cfg.dedup /\ calls[2].cfg.percentage = 100 /\ calls[2].cfg.seed = None

\* C9: the second of two such calls succeeds and writes the same set of rows
\* as the first.
C9_DedupIdempotent ==
    DedupTwice => calls[2].ok /\ RowsOf(calls[2].file) = RowsOf(calls[1].file)

\* C9 witness: the first call removed a duplicate and wrote rows, and the
\* second call has run on them
C9_Witness ==
    /\ DedupTwice
    /\ Len(calls[1].file) > 0
    /\ Len(calls[1].raw) > Len(calls[1].file)

\* C10 (as claimed): in a per-file batch call (dedup=true, percentage 100, no
\* seed) the well-formed rows of a file are all written and the call succeeds,
\* whatever malformed rows the file also holds.
C10_MalformedSkipped ==
    \A k \in DOMAIN calls :
        LET c == calls[k]
            wellFormed == {j \in 1..Len(c.raw) : ~RowRaises(c.raw[j], FALSE)}
        IN  (/\ ~c.cfg.isProcessed /\ c.cfg.dedup
             /\ c.cfg.percentage = 100 /\ c.cfg.seed = None
             /\ wellFormed # {})
            => /\ c.ok
               /\ \A j \in wellFormed :
                      DecodeRow(c.raw[j], FALSE, c.cfg.input_size) \in RowsOf(c.file)

\* ---- the pipeline of mlp_prep.py
\* Stage B has copied every processed file and Stage C has not started
AfterStageB == stage = "merge" /\ merged = Len(output_list)

\* C2 (as claimed): the processed paths create_paths hands to the workers are
\* pairwise distinct, and no two workers that are between computing and
\* closing their output have the same output file.
C2_DistinctOutputPaths ==
    /\ \A i, j \in DOMAIN output_list : i # j => output_list[i] # output_list[j]
    /\ \A i, j \in DOMAIN task :
          (i # j /\ task[i].pc \in {"computed", "opened"} /\ task[j].pc \in {"computed", "opened"})
          => output_list[i] # output_list[j]

\* C3: while the combined file exists (Stage B has opened it, or a later stage
\* runs), every task of the pool has finished, with a result or an exception.
C3_Barrier ==
    (combined_output_path \in DOMAIN fs \/ stage \in {"merge", "stageC", "done"})
    => \A i \in DOMAIN task : Finished(task[i])

\* C3 witness: two workers ran, and the combined file holds the first
\* processed file only
C3_Witness ==
    /\ stage = "merge" /\ merged = 1 /\ Len(task) = 2
    /\ fs[combined_output_path] # <<>>

\* what the workers 1..k wrote, in the order of the file list
RECURSIVE WrittenUpTo(_)
WrittenUpTo(k) == IF k = 0 THEN <<>> ELSE WrittenUpTo(k - 1) \o WriteCSV(task[k].rows)

\* C4 (as claimed): after Stage B the combined file is what worker 1 wrote,
\* then what worker 2 wrote, and so on, each once.
C4_ConcatInOrder ==
    AfterStageB => fs[combined_output_path] = WrittenUpTo(Len(task))

\* the distinct decoded rows of a trace file, Stage A's settings
DedupDecoded(content) ==
    {DecodeRow(r, FALSE, DefaultInputSize) : r \in Elems(ReadCSV(content))}

\* C5 (as claimed): with percentage 100, after Stage B the rows of the
\* combined file are, as a set, the union of the distinct decoded rows of
\* the trace files.
C5_FanInUnion ==
    (AfterStageB /\ args.percentage = 100)
    => RowsOf(fs[combined_output_path]) =
          UNION {DedupDecoded(fs[csv_list[i]]) : i \in DOMAIN csv_list}

\* pool.map raised: the run ended at the barrier
AbortedAtBarrier == stage = "aborted" /\ main.pc = "idle"

\* C11 (as claimed): when a worker has failed, every task that did not fail
\* itself ran to completion, and its processed file holds the distinct
\* decoded rows of its trace file, as without the failure.
C11_SiblingsComplete ==
    AbortedAtBarrier =>
        \A i \in DOMAIN task :
            task[i].pc # "failed" =>
                /\ task[i].pc = "done"
                /\ output_list[i] \in DOMAIN fs
                /\ RowsOf(fs[output_list[i]]) = DedupDecoded(fs[csv_list[i]])
                /\ Len(fs[output_list[i]]) = Cardinality(DedupDecoded(fs[csv_list[i]]))

\* C12: once a task of the pool has failed (or was dropped with its chunk),
\* Stage B never starts: the combined file does not exist and the run is
\* still in the pool or has aborted; a run that ends normally has processed
\* every file it was given.
C12_NoPartialCorpus ==
    /\ (\E i \in DOMAIN task : task[i].pc \in {"failed", "skipped"})
       => /\ combined_output_path \notin DOMAIN fs
          /\ stage \in {"pool", "aborted"}
    /\ stage = "done" => \A i \in DOMAIN task : task[i].pc = "done"

\* C12 witness: one worker wrote its processed file, another failed, and the
\* run aborted at the barrier without a combined file
C12_Witness ==
    /\ AbortedAtBarrier
    /\ \E i, j \in DOMAIN task :
          /\ task[i].pc = "done" /\ output_list[i] \in DOMAIN fs
          /\ task[j].pc = "failed"
    /\ combined_output_path \notin DOMAIN fs

\* C13 (as claimed): a call with isProcessed=true writes every row with the
\* label and the history value it read, whatever input_size is.
C13_ProcessedPassThrough ==
    \A k \in DOMAIN calls :
        LET c == calls[k]
        IN  (c.ok /\ c.cfg.isProcessed) =>
              \A i \in 1..Len(c.file) :
                  LET w == ParseLine(c.file[i])
                  IN  \E j \in 1..Len(c.raw) :
                          /\ w[1] = c.raw[j][1]
                          /\ IntOf(Strip(w[2])) = IntOf(Strip(c.raw[j][2]))

\* C14: when the run has ended normally, every row of the combined file has
\* a history that is the decimal text of a value in 0..2^W-1, W the run's
\* --input_size.
C14_FinalHistoryInRange ==
    stage = "done" =>
        \A i \in 1..Len(fs[combined_output_path]) :
            LET w == ParseLine(fs[combined_output_path][i])
            IN  /\ Len(w) = 2
                /\ ParsesAsInt(w[2])
                /\ 0 <= IntOf(w[2]) /\ IntOf(w[2]) < 2^(args.input_size)

\* C14 witness: the run ended with a non-empty combined file, and Stage A
\* had written a history that does not fit in W bits
C14_Witness ==
    /\ stage = "done"
    /\ fs[combined_output_path] # <<>>
    /\ \E i \in DOMAIN task : \E k \in 1..Len(task[i].rows) :
          IntOf(task[i].rows[k][2]) >= 2^(args.input_size)

\* a configuration the specification calls a configuration error
BadConfig(pct, w) == pct < 0 \/ pct > 100 \/ w < 1 \/ w > 64

\* C15 (as claimed): with a percentage outside 0..100 or an input_size
\* outside 1..64, mlp_prep.py stops at the command line, and a process()
\* call never gets past its start: it reads no file and writes none.
C15_BadConfigNoIO ==
    /\ BadConfig(args.percentage, args.input_size) => stage = "usage"
    /\ BadConfig(main.cfg.percentage, main.cfg.input_size) => main.pc \in {"idle", "start"}
    /\ \A k \in DOMAIN calls : ~BadConfig(calls[k].cfg.percentage, calls[k].cfg.input_size)

\* C16 (as claimed): a process() call that has written its output has left
\* its input file as it read it, the Stage C call on the combined file
\* included.
C16_InputUnchanged ==
    \A k \in DOMAIN calls :
        calls[k].ok =>
            /\ calls[k].cfg.input_file \in DOMAIN fs
            /\ ReadCSV(fs[calls[k].cfg.input_file]) = calls[k].raw

\* C17 (as claimed): with dedup=true and a seed, two calls with the same
\* configuration whose inputs have the same set of distinct decoded rows
\* write the same sequence of rows.
C17_SeededDedupDeterministic ==
    \A j, k \in DOMAIN calls :
        (/\ calls[j].ok /\ calls[k].ok
         /\ calls[j].cfg = calls[k].cfg
         /\ calls[j].cfg.dedup /\ calls[j].cfg.seed # None
         /\ DecodedSet(calls[j]) = DecodedSet(calls[k]))
        => calls[j].file = calls[k].file

\* C18 (as claimed): a call without a seed and without dedup (percentage in
\* 0..100) writes the decoded forms of the first floor(P/100 * N) input
\* rows, in input order.
C18_UnseededPrefix ==
    \A k \in DOMAIN calls :
        LET c == calls[k]
            n == (c.cfg.percentage * Len(c.raw)) \div 100
        IN  (c.ok /\ c.cfg.seed = None /\ ~c.cfg.dedup /\ c.cfg.percentage <= 100) =>
              c.file = WriteCSV([i \in 1..n |->
                                    DecodeRow(c.raw[i], c.cfg.isProcessed, c.cfg.input_size)])

\* how often e occurs in the sequence x
CountIn(x, e) == Cardinality({i \in 1..Len(x) : x[i] = e})

\* the rows a finished call wrote, and the decoded rows of its input, in order
WrittenRows(c) == [i \in 1..Len(c.file) |-> ParseLine(c.file[i])]

DecodedRows(c) ==
    [j \in 1..Len(c.raw) |-> DecodeRow(c.raw[j], c.cfg.isProcessed, c.cfg.input_size)]

\* C19: with dedup=false, whatever the seed and the percentage, every row
\* is written at most as often as it occurs among the decoded input rows,
\* and at percentage 100 exactly as often: the written rows are a permutation
\* of the decoded input rows.
C19_SamplingKeepsMultiset ==
    \A k \in DOMAIN calls :
        LET c == calls[k]
        IN  (c.ok /\ ~c.cfg.dedup) =>
              /\ \A e \in Elems(WrittenRows(c)) :
                    CountIn(WrittenRows(c), e) <= CountIn(DecodedRows(c), e)
              /\ c.cfg.percentage = 100 =>
                    /\ Len(c.file) = Len(c.raw)
                    /\ \A e \in Elems(DecodedRows(c)) :
                          CountIn(WrittenRows(c), e) = CountIn(DecodedRows(c), e)

\* C19 witness: a seeded call without dedup at percentage 100 read the same
\* row twice and wrote it twice
C19_Witness ==
    \E k \in DOMAIN calls :
        /\ calls[k].ok /\ ~calls[k].cfg.dedup /\ calls[k].cfg.seed # None
        /\ calls[k].cfg.percentage = 100
        /\ Len(calls[k].raw) = 2 /\ calls[k].raw[1] = calls[k].raw[2]
        /\ Len(calls[k].file) = 2 /\ calls[k].file[1] = calls[k].file[2]

\* the file at path has a line of fewer than four fields
HasShortRow(path) ==
    /\ path \in DOMAIN fs
    /\ \E j \in 1..Len(fs[path]) : Len(ParseLine(fs[path][j])) < 4

\* C20: a call with isProcessed=false on a file that has a row of fewer than
\* four fields ends with an exception and writes nothing: it never gets to
\* the truncation or to its output file, and no output file exists with rows
\* built from that input.
C20_ShortRowRejected ==
    /\ (~main.cfg.isProcessed /\ HasShortRow(main.cfg.input_file))
       => main.pc \in {"idle", "start", "failed"}
    /\ \A k \in DOMAIN calls :
          (~calls[k].cfg.isProcessed /\ HasShortRow(calls[k].cfg.input_file))
          => /\ ~calls[k].ok
             /\ calls[k].file = <<>>
             /\ calls[k].cfg.output_file \notin DOMAIN fs

\* C20 witness: a call read a well-formed row and a row of fewer than four
\* fields, ended with an exception, and there is no output file
C20_Witness ==
    \E k \in DOMAIN calls :
        /\ ~calls[k].cfg.isProcessed /\ ~calls[k].ok
        /\ Len(calls[k].raw) = 2
        /\ \E i, j \in 1..2 :
              /\ Len(calls[k].raw[i]) = 4 /\ ParsesAsInt(calls[k].raw[i][4])
              /\ Len(calls[k].raw[j]) < 4
        /\ calls[k].cfg.output_file \notin DOMAIN fs

\* the Stage C call of a run that has ended normally
StageCCall == calls[Len(calls)]

C22_FailedRunKeepsOutput ==
    \A k \in DOMAIN calls :
        LET c   == calls[k]
            out == c.cfg.output_file
        IN  ~c.ok =>
              IF k > 1 THEN out \in DOMAIN fs /\ fs[out] = calls[k - 1].file
              ELSE IF out = c.cfg.input_file
                   THEN out \in DOMAIN fs /\ ReadCSV(fs[out]) = c.raw
                   ELSE out \notin DOMAIN fs \/ fs[out] = PreviousOutput

\* C22 witness: a call that writes over its input read a well-formed row
\* and a malformed one, failed, and the file still holds both rows
C22_Witness ==
    /\ Len(calls) = 1 /\ ~calls[1].ok
    /\ calls[1].cfg.output_file = calls[1].cfg.input_file
    /\ Len(calls[1].raw) = 2
    /\ \E i \in 1..2 : ~RowRaises(calls[1].raw[i], FALSE)
    /\ ReadCSV(fs[calls[1].cfg.output_file]) = calls[1].raw

\* a finished call of the kind Stage C makes: processed rows, no dedup,
\* written over the combined file it read
IsStageCCall(c) ==
    /\ c.cfg.input_file = combined_output_path
    /\ c.cfg.output_file = combined_output_path
    /\ c.cfg.isProcessed /\ ~c.cfg.dedup

\* C23 (as claimed): the Stage C call on a concatenation of M = BigRows rows
\* (or, when repeated, on the M rows the call before it wrote) reads all M
\* rows before it writes, and the file it leaves has floor(P/100 * M) rows.
C23_StageCReadsAllThenCounts ==
    \A k \in DOMAIN calls :
        LET c == calls[k]
        IN  (c.ok /\ IsStageCCall(c)) =>
              /\ Len(c.raw) = IF k = 1 THEN BigRows ELSE Len(calls[k - 1].file)
              /\ Len(c.file) = (c.cfg.percentage * Len(c.raw)) \div 100

\* ---- the sweep of perceptron_sweep.py
AllSweepConfigs ==
    {<<TABLE_SIZES[t], HISTORY_LENGTHS[h]>> : t \in DOMAIN TABLE_SIZES, h \in DOMAIN HISTORY_LENGTHS}

\* how many records of the two result lists name configuration c
RecordsOf(c) ==
    Cardinality({k \in DOMAIN sweep.successful_configs : sweep.successful_configs[k] = c})
    + Cardinality({k \in DOMAIN sweep.failed_configs :
                      <<sweep.failed_configs[k][1], sweep.failed_configs[k][2]>> = c})

\* C24: run_traces is invoked for a configuration only after build_perceptron
\* returned True for that same configuration; a failed build or a failed trace
\* run does not stop the sweep; and when the sweep ends each of the
\* len(TABLE_SIZES) * len(HISTORY_LENGTHS) configurations is recorded in
\* exactly one of successful_configs and failed_configs.
C24_SweepRecordsEveryConfig ==
    /\ {<<sweep.traced[k], TRUE>> : k \in DOMAIN sweep.traced}
           \subseteq {sweep.built[b] : b \in DOMAIN sweep.built}
    /\ sweep.pc = "traces" => sweep.built[Len(sweep.built)] = <<SweepConfig(sweep), TRUE>>
    /\ sweep.pc = "done" =>
           /\ Len(sweep.built) = Len(TABLE_SIZES) * Len(HISTORY_LENGTHS)
           /\ {sweep.built[b][1] : b \in DOMAIN sweep.built} = AllSweepConfigs
           /\ \A c \in AllSweepConfigs : RecordsOf(c) = 1
           /\ Len(sweep.successful_configs) + Len(sweep.failed_configs)
                = Len(TABLE_SIZES) * Len(HISTORY_LENGTHS)

\* a finished sweep with a failed build in its first half and successes after it
C24_Witness ==
    /\ sweep.pc = "done"
    /\ \E i \in DOMAIN sweep.failed_configs :
           /\ sweep.failed_configs[i][3] = "build_failed"
           /\ sweep.failed_configs[i][1] = TABLE_SIZES[2]
    /\ Len(sweep.traced) = Len(TABLE_SIZES) * Len(HISTORY_LENGTHS) - 1
    /\ sweep.successful_configs /= <<>>
    /\ sweep.successful_configs[Len(sweep.successful_configs)]
         = <<TABLE_SIZES[Len(TABLE_SIZES)], HISTORY_LENGTHS[Len(HISTORY_LENGTHS)]>>

====
